---- MODULE Spec2Model ----
(***************************************************************************)
(* Model of the libsmac lexer: the Tokenizer cursor, the Lexer driving     *)
(* loop and the five built-in matchers of lexer/matcher.rs.                *)
(*                                                                         *)
(* A character is a TLA+ string.  ASCII characters are strings of length   *)
(* one; the string "U+00E9" stands for the two-byte alphabetic character   *)
(* e-acute.  A Rust String is a sequence of characters.  Offsets are       *)
(* zero-based, as in the source: the character at offset k of `items` is   *)
(* items[k + 1].                                                           *)
(***************************************************************************)
EXTENDS Integers, Sequences, FiniteSets, TLC

VARIABLES
    items,      \* Tokenizer: the input characters
    index,      \* Tokenizer: the current offset
    matchers,   \* Lexer: the registered matchers, in registration order
    cursor,     \* Lexer: position in `matchers` of the matcher tried next
    state,      \* Lexer: "Running", "Done", "Failed" or "Panicked"
    tokens,     \* the tokens yielded so far, in emission order
    failure,    \* the failure or panic that ended the pass, or NoFailure
    lastCall,   \* history: the latest try_match call and its outcome
    spans,      \* history: the offsets [from, to) consumed by each Some call
    stepStart   \* history: the offset at which the current Lexer step began

vars == <<items, index, matchers, cursor, state, tokens, failure, lastCall,
          spans, stepStart>>

(***************************************************************************)
(* Bounds of the model.                                                    *)
(***************************************************************************)
MaxLen == 3         \* longest enumerated input
MaxMatchers == 2    \* longest enumerated registration order
MaxTokens == 6      \* tokens yielded before the model stops a pass
IntWidth == 5       \* bits of the unsigned target integer (u64 in the source)

(***************************************************************************)
(* Characters: char::is_whitespace, is_alphabetic, is_alphanumeric,        *)
(* is_digit(radix), and the UTF-8 length that String::len counts.          *)
(***************************************************************************)
WhitespaceChars == {" ", "\t", "\n", "\r"}

AlphabeticChars ==
    {"a", "b", "c", "d", "e", "f", "g", "n", "q", "r", "t", "x",
     "A", "B", "C", "D", "E", "F", "U+00E9"}

DigitChars == <<"0", "1", "2", "3", "4", "5", "6", "7", "8", "9",
                "a", "b", "c", "d", "e", "f">>

UpperDigitChars == <<"A", "B", "C", "D", "E", "F">>

is_whitespace(c) == c \in WhitespaceChars

is_alphabetic(c) == c \in AlphabeticChars

is_numeric(c) == \E i \in 1..10 : DigitChars[i] = c

is_alphanumeric(c) == is_alphabetic(c) \/ is_numeric(c)

\* char::to_digit: the digit's value, or -1 when c is no digit at all
to_digit(c) ==
    IF \E i \in 1..16 : DigitChars[i] = c
    THEN (CHOOSE i \in 1..16 : DigitChars[i] = c) - 1
    ELSE IF \E i \in 1..6 : UpperDigitChars[i] = c
    THEN (CHOOSE i \in 1..6 : UpperDigitChars[i] = c) + 9
    ELSE -1

is_digit(c, radix) == to_digit(c) >= 0 /\ to_digit(c) < radix

len_utf8(c) == IF c = "U+00E9" THEN 2 ELSE 1

\* String::len: the length in bytes
RECURSIVE str_len(_)
str_len(s) == IF s = <<>> THEN 0 ELSE len_utf8(Head(s)) + str_len(Tail(s))

(***************************************************************************)
(* Tokenizer: the cursor over the input.                                   *)
(***************************************************************************)
EndOfInput == "EndOfInput"

end(its, idx) == idx >= Len(its)

peek_n(its, idx, k) == IF idx + k >= Len(its) THEN EndOfInput ELSE its[idx + k + 1]

peek(its, idx) == peek_n(its, idx, 0)

advance(idx, n) == idx + n

last_position(idx) == idx

\* The upper bound of the size hint of `tokenizer.clone().take(n)`
take_size_hint(its, idx, n) ==
    LET remaining == IF end(its, idx) THEN 0 ELSE Len(its) - idx
    IN  IF remaining < n THEN remaining ELSE n

\* `tokenizer.clone().take(n).collect::<String>()`
take_collect(its, idx, n) ==
    IF end(its, idx) THEN <<>>
    ELSE SubSeq(its, idx + 1, IF idx + n > Len(its) THEN Len(its) ELSE idx + n)

(***************************************************************************)
(* Results of try_match.  res is "Some", "None" or "Panic"; index is the   *)
(* tokenizer's offset when the call returned (or panicked).                *)
(***************************************************************************)
NoToken == [token_type |-> "-", position |-> -1, lexeme |-> <<>>]

Token_new(token_type, position, lexeme) ==
    [token_type |-> token_type, position |-> position, lexeme |-> lexeme]

\* the token! macro: Some(Token::new(type, tokenizer.last_position(), accum))
token(idx, token_type, accum) ==
    [res |-> "Some", index |-> idx,
     token |-> Token_new(token_type, last_position(idx), accum),
     panic |-> "-", arg |-> <<>>]

None(idx) == [res |-> "None", index |-> idx, token |-> NoToken,
              panic |-> "-", arg |-> <<>>]

Panic(idx, what, arg) == [res |-> "Panic", index |-> idx, token |-> NoToken,
                          panic |-> what, arg |-> arg]

(***************************************************************************)
(* WhitespaceMatcher                                                       *)
(***************************************************************************)
RECURSIVE WhitespaceRun(_, _)
WhitespaceRun(its, idx) ==
    IF ~end(its, idx) /\ is_whitespace(peek(its, idx))
    THEN WhitespaceRun(its, idx + 1)
    ELSE idx

WhitespaceMatcher_try_match(its, idx) ==
    LET stop == WhitespaceRun(its, idx)
        found == stop # idx
    IN  IF found THEN token(stop, "Whitespace", <<>>) ELSE None(stop)

(***************************************************************************)
(* IntLiteralMatcher                                                       *)
(***************************************************************************)
RECURSIVE Pow2(_)
Pow2(n) == IF n = 0 THEN 1 ELSE 2 * Pow2(n - 1)

\* the largest value of the unsigned target integer
UMax == Pow2(IntWidth) - 1

\* u64::from_str_radix: checked multiply-and-add over the digits; -1 is Err
RECURSIVE from_str_radix_acc(_, _, _)
from_str_radix_acc(s, radix, acc) ==
    IF s = <<>> THEN acc
    ELSE IF ~is_digit(Head(s), radix) THEN -1
    ELSE IF acc * radix > UMax THEN -1
    ELSE IF acc * radix + to_digit(Head(s)) > UMax THEN -1
    ELSE from_str_radix_acc(Tail(s), radix, acc * radix + to_digit(Head(s)))

from_str_radix(s, radix) ==
    IF s = <<>> THEN -1 ELSE from_str_radix_acc(s, radix, 0)

\* u64::to_string: the canonical base-10 text
RECURSIVE to_string(_)
to_string(v) ==
    IF v < 10 THEN <<DigitChars[v + 1]>>
    ELSE to_string(v \div 10) \o <<DigitChars[(v % 10) + 1]>>

\* lines 44-58: the base chosen from the current and the following character
IntBase(its, idx) ==
    IF peek(its, idx) = "0"
    THEN CASE peek_n(its, idx, 1) = "x" -> 16
           [] peek_n(its, idx, 1) = "b" -> 2
           [] OTHER -> 10
    ELSE 10

\* lines 62-64: the offset after the maximal run of digits of the base
RECURSIVE DigitRun(_, _, _)
DigitRun(its, idx, base) ==
    IF ~end(its, idx) /\ is_digit(peek(its, idx), base)
    THEN DigitRun(its, idx + 1, base)
    ELSE idx

\* IntLiteralMatcher.try_match with the digits as read for the lexeme (a
\* mutation of the code: the literal is not normalised to base-10 text)
IntLiteralMatcher_try_match_raw(its, idx) ==
    IF peek(its, idx) = EndOfInput THEN Panic(idx, "EndOfInput", <<>>)
    ELSE
    LET base == IntBase(its, idx)
        start == IF base # 10 THEN advance(idx, 2) ELSE idx
        stop == DigitRun(its, start, base)
        accum == SubSeq(its, start + 1, stop)
    IN  IF accum # <<>>
        THEN IF from_str_radix(accum, base) >= 0
             THEN token(stop, "IntLiteral", accum)
             ELSE Panic(stop, "ParseInt", accum)
        ELSE None(stop)

IntLiteralMatcher_try_match(its, idx) ==
    IF peek(its, idx) = EndOfInput THEN Panic(idx, "EndOfInput", <<>>)
    ELSE
    LET base == IntBase(its, idx)
        start == IF base # 10 THEN advance(idx, 2) ELSE idx
        stop == DigitRun(its, start, base)
        accum == SubSeq(its, start + 1, stop)
    IN  IF accum # <<>>
        THEN IF from_str_radix(accum, base) >= 0
             THEN token(stop, "IntLiteral", to_string(from_str_radix(accum, base)))
             ELSE Panic(stop, "ParseInt", accum)
        ELSE None(stop)

(***************************************************************************)
(* StringLiteralMatcher                                                    *)
(***************************************************************************)
Scan(idx, string, bad) == [index |-> idx, string |-> string, bad |-> bad]

\* The escape codes with the code letter itself pushed (a mutation of the
\* code: n, r and t are not translated)
Escape_untranslated(c) ==
    IF c \in {"\\", "\"", "n", "r", "t"} THEN c ELSE "-"

\* line 105-111: the character an escape code stands for, or "-" for none
Escape(c) ==
    CASE c = "\\" -> "\\"
      [] c = "\"" -> "\""
      [] c = "n" -> "\n"
      [] c = "r" -> "\r"
      [] c = "t" -> "\t"
      [] OTHER -> "-"

\* lines 91-126: the scan loop; `bad` holds the character of an invalid escape
RECURSIVE StringScan(_, _, _, _, _)
StringScan(its, idx, delimeter, string, found_escape) ==
    IF end(its, idx) THEN Scan(idx, string, <<>>)
    ELSE IF delimeter = "'"
    THEN IF peek(its, idx) = "'"
         THEN Scan(idx, string, <<>>)
         ELSE StringScan(its, idx + 1, delimeter,
                         Append(string, peek(its, idx)), found_escape)
    ELSE IF found_escape
    THEN IF Escape(peek(its, idx)) = "-"
         THEN Scan(idx + 1, string, <<peek(its, idx)>>)
         ELSE StringScan(its, idx + 1, delimeter,
                         Append(string, Escape(peek(its, idx))), FALSE)
    ELSE CASE peek(its, idx) = "\\" ->
                StringScan(its, idx + 1, delimeter, string, TRUE)
           [] peek(its, idx) = "\"" -> Scan(idx, string, <<>>)
           [] OTHER ->
                StringScan(its, idx + 1, delimeter,
                           Append(string, peek(its, idx)), found_escape)

\* StringLiteralMatcher.try_match scanning every literal as a double-quoted
\* one (a mutation of the code: the opening delimiter is not remembered)
StringLiteralMatcher_try_match_one_mode(its, idx) ==
    IF peek(its, idx) = EndOfInput THEN Panic(idx, "EndOfInput", <<>>)
    ELSE IF peek(its, idx) \notin {"\"", "'"} THEN None(idx)
    ELSE
    LET scan == StringScan(its, advance(idx, 1), "\"", <<>>, FALSE)
        stop == advance(scan.index, 1)
    IN  IF scan.bad # <<>> THEN Panic(scan.index, "InvalidEscape", scan.bad)
        ELSE IF str_len(scan.string) = 1
        THEN token(stop, "CharLiteral", scan.string)
        ELSE token(stop, "StringLiteral", scan.string)

\* StringLiteralMatcher.try_match declining a literal whose scan ran off the
\* end of the input (a mutation of the code: a closing delimiter is required)
StringLiteralMatcher_try_match_closed(its, idx) ==
    IF peek(its, idx) = EndOfInput THEN Panic(idx, "EndOfInput", <<>>)
    ELSE IF peek(its, idx) \notin {"\"", "'"} THEN None(idx)
    ELSE
    LET scan == StringScan(its, advance(idx, 1), peek(its, idx), <<>>, FALSE)
        stop == advance(scan.index, 1)
    IN  IF scan.bad # <<>> THEN Panic(scan.index, "InvalidEscape", scan.bad)
        ELSE IF end(its, scan.index) THEN None(idx)
        ELSE IF str_len(scan.string) = 1
        THEN token(stop, "CharLiteral", scan.string)
        ELSE token(stop, "StringLiteral", scan.string)

StringLiteralMatcher_try_match(its, idx) ==
    IF peek(its, idx) = EndOfInput THEN Panic(idx, "EndOfInput", <<>>)
    ELSE IF peek(its, idx) \notin {"\"", "'"} THEN None(idx)
    ELSE
    LET scan == StringScan(its, advance(idx, 1), peek(its, idx), <<>>, FALSE)
        stop == advance(scan.index, 1)
    IN  IF scan.bad # <<>> THEN Panic(scan.index, "InvalidEscape", scan.bad)
        ELSE IF str_len(scan.string) = 1
        THEN token(stop, "CharLiteral", scan.string)
        ELSE token(stop, "StringLiteral", scan.string)

(***************************************************************************)
(* ConstantMatcher                                                         *)
(***************************************************************************)
ConstantMatcher_new(token_type, constants) ==
    [kind |-> "Constant", token_type |-> token_type, constants |-> constants]

\* ConstantMatcher.try_match with the constants tried from the last to the
\* first (a mutation of the code: list order no longer decides the match)
RECURSIVE ConstantLoopBackwards(_, _, _, _)
ConstantLoopBackwards(self, its, idx, i) ==
    IF i < 1 THEN None(idx)
    ELSE
    LET constant == self.constants[i]
        n == str_len(constant)
    IN  IF take_size_hint(its, idx, n) # n THEN None(idx)
        ELSE IF take_collect(its, idx, n) = constant
        THEN token(advance(idx, n), self.token_type, constant)
        ELSE ConstantLoopBackwards(self, its, idx, i - 1)

ConstantMatcher_try_match_backwards(self, its, idx) ==
    ConstantLoopBackwards(self, its, idx, Len(self.constants))

\* lines 155-165: the loop over the constants, from the i-th on
RECURSIVE ConstantLoop(_, _, _, _)
ConstantLoop(self, its, idx, i) ==
    IF i > Len(self.constants) THEN None(idx)
    ELSE
    LET constant == self.constants[i]
        n == str_len(constant)
    IN  IF take_size_hint(its, idx, n) # n THEN None(idx)
        ELSE IF take_collect(its, idx, n) = constant
        THEN token(advance(idx, n), self.token_type, constant)
        ELSE ConstantLoop(self, its, idx, i + 1)

\* ConstantMatcher.try_match with the token built before the constant is
\* consumed (a mutation of the code: the position is that of the start)
ConstantMatcher_try_match_stamp_first(self, its, idx) ==
    LET r == ConstantLoop(self, its, idx, 1)
    IN  IF r.res = "Some"
        THEN [r EXCEPT !.token = Token_new(self.token_type, last_position(idx),
                                           r.token.lexeme)]
        ELSE r

ConstantMatcher_try_match(self, its, idx) == ConstantLoop(self, its, idx, 1)

(***************************************************************************)
(* IdentifierMatcher                                                       *)
(***************************************************************************)
\* Identifier characters without the marks (a mutation of the code: the
\* underscore, ? and ! no longer continue an identifier)
IdentifierPart_alphanumeric(c) == ~is_whitespace(c) /\ is_alphanumeric(c)

\* line 183: may the character continue an identifier
IdentifierPart(c) ==
    ~is_whitespace(c) /\ (c \in {"_", "?", "!"} \/ is_alphanumeric(c))

\* lines 181-188: the offset after the maximal run of identifier characters
RECURSIVE IdentifierRun(_, _)
IdentifierRun(its, idx) ==
    IF ~end(its, idx) /\ IdentifierPart(peek(its, idx))
    THEN IdentifierRun(its, idx + 1)
    ELSE idx

IdentifierMatcher_try_match(its, idx) ==
    IF peek(its, idx) = EndOfInput THEN Panic(idx, "EndOfInput", <<>>)
    ELSE
    LET curr == peek(its, idx)
        after == idx + 1
        stop == IdentifierRun(its, after)
        identifier == SubSeq(its, idx + 1, stop)
    IN  IF is_alphabetic(curr) \/ curr = "_"
        THEN IF identifier # <<>>
             THEN token(stop, "Identifier", identifier)
             ELSE None(stop)
        ELSE None(after)

(***************************************************************************)
(* Lexer: the driving loop.  One step of the pass tries the registered     *)
(* matchers in order from the current offset; `cursor` is the position of  *)
(* the loop over the matchers, 1 at the top of a step.                     *)
(***************************************************************************)
Matcher(kind) == [kind |-> kind, token_type |-> "-", constants |-> <<>>]

NoFailure == [kind |-> "-", position |-> -1, arg |-> <<>>]

NoCall == [matcher |-> Matcher("-"), before |-> 0, after |-> 0, res |-> "-",
           token |-> NoToken]

\* The effect on the Lexer of the matcher at `cursor` having returned r
Returned(r) ==
    /\ index' = r.index
    /\ lastCall' = [matcher |-> matchers[cursor], before |-> index,
                    after |-> r.index, res |-> r.res, token |-> r.token]
    /\ CASE r.res = "Some" ->
              /\ tokens' = Append(tokens, r.token)
              /\ spans' = Append(spans, <<index, r.index>>)
              /\ cursor' = 1
              /\ stepStart' = r.index
              /\ UNCHANGED <<state, failure>>
         [] r.res = "None" ->
              /\ cursor' = cursor + 1
              /\ UNCHANGED <<tokens, spans, stepStart, state, failure>>
         [] OTHER ->
              /\ state' = "Panicked"
              /\ failure' = [kind |-> r.panic, position |-> r.index,
                             arg |-> r.arg]
              /\ UNCHANGED <<tokens, spans, stepStart, cursor>>
    /\ UNCHANGED <<items, matchers>>

\* The Lexer is about to call the matcher at `cursor`, which is of `kind`
Trying(kind) ==
    /\ state = "Running"
    /\ cursor <= Len(matchers)
    /\ cursor = 1 => ~end(items, index)
    /\ Len(tokens) < MaxTokens
    /\ matchers[cursor].kind = kind

TryWhitespace ==
    /\ Trying("Whitespace")
    /\ Returned(WhitespaceMatcher_try_match(items, index))

TryIntLiteral ==
    /\ Trying("IntLiteral")
    /\ Returned(IntLiteralMatcher_try_match(items, index))

TryStringLiteral ==
    /\ Trying("StringLiteral")
    /\ Returned(StringLiteralMatcher_try_match(items, index))

TryConstant ==
    /\ Trying("Constant")
    /\ Returned(ConstantMatcher_try_match(matchers[cursor], items, index))

TryIdentifier ==
    /\ Trying("Identifier")
    /\ Returned(IdentifierMatcher_try_match(items, index))

\* At the top of a step the Tokenizer reports end of input: no further token
LexerDone ==
    /\ state = "Running"
    /\ cursor = 1
    /\ end(items, index)
    /\ state' = "Done"
    /\ UNCHANGED <<items, index, matchers, cursor, tokens, failure, lastCall,
                   spans, stepStart>>

\* No matcher of the list produced a token in this step
LexerUnrecognized ==
    /\ state = "Running"
    /\ cursor > Len(matchers)
    /\ cursor = 1 => ~end(items, index)
    /\ state' = "Failed"
    /\ failure' = [kind |-> "UnrecognizedInput", position |-> index,
                   arg |-> <<>>]
    /\ UNCHANGED <<items, index, matchers, cursor, tokens, lastCall, spans,
                   stepStart>>

(***************************************************************************)
(* Initial states: a fresh Tokenizer over an input, wrapped by a Lexer on  *)
(* which matchers were registered.  Inputs and constant lists are drawn    *)
(* per theme, so that each matcher meets the characters it reacts to.      *)
(***************************************************************************)
SeqsUpTo(S, n) == UNION {[1..k -> S] : k \in 0..n}

Distinct(s) == \A i, j \in 1..Len(s) : i # j => s[i] # s[j]

Kinds == {"Whitespace", "IntLiteral", "StringLiteral", "Constant", "Identifier"}

\* the registration order of the lexing example (( 1 2 ) with symbols first)
SymbolsFirst == <<"Constant", "Identifier", "IntLiteral", "Whitespace">>

\* the registration order of smac's main
MainOrder == <<"Whitespace", "IntLiteral", "Identifier", "Constant">>

Orders == {o \in SeqsUpTo(Kinds, MaxMatchers) : Distinct(o)}
              \cup {SymbolsFirst, MainOrder}

Parens == << <<"(">>, <<")">> >>

DemoInput == <<"(", "1", " ", "2", ")">>

\* the integer literals 007, 0x1A and 0b101
IntExamples == { <<"0", "0", "7">>, <<"0", "x", "1", "A">>,
                 <<"0", "b", "1", "0", "1">> }

\* literals holding an escaped n in either quoting, an escaped quote and an
\* escaped backslash
StringExamples == { <<"\"", "a", "\\", "n", "b", "\"">>,
                    <<"'", "a", "\\", "n", "b", "'">>,
                    <<"\"", "\\", "\"", "\"">>,
                    <<"\"", "\\", "\\", "\"">> }

Themes ==
    { [chars |-> {"(", ")", "1", " ", "a", "@"},
       lists |-> {Parens},
       extra |-> {DemoInput}],
      [chars |-> {"0", "1", "9", "x", "b", "g"},
       lists |-> {Parens},
       extra |-> IntExamples],
      [chars |-> {"a", "1", "_", "?", "!", " "},
       lists |-> {Parens},
       extra |-> {}],
      [chars |-> {"\"", "'", "\\", "n", "q", "U+00E9"},
       lists |-> {Parens},
       extra |-> StringExamples],
      [chars |-> {"=", "a", "U+00E9"},
       lists |-> { <<>>,
                   << <<>> >>,
                   << <<"=", "=">>, <<"=">> >>,
                   << <<"=">>, <<"=", "=">> >>,
                   << <<"a", "=">>, <<"=">> >>,
                   << <<"U+00E9">>, <<"a">> >>,
                   << <<"=", "a">>, <<"=", "=">>, <<"a">> >> },
       extra |-> {}] }

Registered(order, constants) ==
    [i \in 1..Len(order) |->
        IF order[i] = "Constant"
        THEN ConstantMatcher_new("Symbol", constants)
        ELSE Matcher(order[i])]

Init ==
    /\ \E th \in Themes :
          /\ items \in SeqsUpTo(th.chars, MaxLen) \cup th.extra
          /\ \E order \in Orders, constants \in th.lists :
                matchers = Registered(order, constants)
    /\ index = 0
    /\ cursor = 1
    /\ state = "Running"
    /\ tokens = <<>>
    /\ failure = NoFailure
    /\ lastCall = NoCall
    /\ spans = <<>>
    /\ stepStart = 0

Next ==
    \/ TryWhitespace
    \/ TryIntLiteral
    \/ TryStringLiteral
    \/ TryConstant
    \/ TryIdentifier
    \/ LexerDone
    \/ LexerUnrecognized

Spec == Init /\ [][Next]_vars

(***************************************************************************)
(* Properties.                                                             *)
(***************************************************************************)
\* Is the string c the text of `its` from offset idx on
IsPrefixAt(c, its, idx) ==
    /\ idx + Len(c) <= Len(its)
    /\ \A k \in 1..Len(c) : its[idx + k] = c[k]

\* The kinds and lexemes of a token sequence, positions left out
Lexemes(toks) == [i \in 1..Len(toks) |-> <<toks[i].token_type, toks[i].lexeme>>]

\* Is the input offset k inside the span of some emitted token
Covered(k) == \E i \in 1..Len(spans) : spans[i][1] <= k /\ k < spans[i][2]

\* C1: a try_match call made before the end of input that returned None
\* left the tokenizer's offset where it was.
C1_DeclineLeavesOffset ==
    (lastCall.res = "None" /\ lastCall.before < Len(items))
        => lastCall.after = lastCall.before

\* C2: with the symbols ( and ) registered first, then the identifier, the
\* integer and the whitespace matcher, the pass over ( 1 2 ) ends normally
\* with the tokens Symbol (, IntLiteral 1, Whitespace, IntLiteral 2, Symbol ).
C2_DemoTokens ==
    (/\ items = DemoInput
     /\ matchers = Registered(SymbolsFirst, Parens)
     /\ state # "Running")
        => /\ state = "Done"
           /\ Lexemes(tokens) = << <<"Symbol", <<"(">> >>,
                                   <<"IntLiteral", <<"1">> >>,
                                   <<"Whitespace", <<>> >>,
                                   <<"IntLiteral", <<"2">> >>,
                                   <<"Symbol", <<")">> >> >>

\* C3: while no matcher has aborted, every input character before the
\* tokenizer's offset lies inside the span of an emitted token.
C3_ConsumedIsCovered ==
    state # "Panicked"
        => \A k \in 0..(index - 1) : k < Len(items) => Covered(k)

\* C4: a pass that fails with UnrecognizedInput reports the offset at which
\* the failing step began, and the tokenizer still is at that offset.
C4_FailureAtStepStart ==
    (state = "Failed" /\ failure.kind = "UnrecognizedInput")
        => /\ failure.position = stepStart
           /\ index = stepStart
           /\ \A k \in 0..(stepStart - 1) : k < Len(items) => Covered(k)

\* C5: the constant matcher returns None only if no constant of its list is
\* the text of the input at the offset of the call.
C5_DeclineMeansNoConstant ==
    (lastCall.matcher.kind = "Constant" /\ lastCall.res = "None")
        => \A i \in 1..Len(lastCall.matcher.constants) :
              ~IsPrefixAt(lastCall.matcher.constants[i], items, lastCall.before)

C7_NoEndOfInputUnwrapped ==
    ~(state = "Panicked" /\ failure.kind = "EndOfInput")

\* C8: an unsupported escape ends the pass in a recoverable failure state
\* that carries the offending character, never in an abort.
C8_InvalidEscapeRecoverable ==
    failure.kind = "InvalidEscape"
        => state = "Failed" /\ Len(failure.arg) = 1

\* C9: the integer matcher never reaches its parse-failure branch; a digit
\* run too large for the width ends in a recoverable failure, not an abort.
C9_NoParseFailure ==
    ~(state = "Panicked" /\ failure.kind = "ParseInt")

\* C10: every try_match that returned Some moved the offset forward by at
\* least one character, so a pass yields no more tokens than the input has
\* characters.
C10_SomeAdvances ==
    /\ lastCall.res = "Some" => lastCall.after > lastCall.before
    /\ Len(tokens) <= Len(items)

\* C11: a try_match call made before the end of input that returned Some
\* left the offset inside the input, moved by the characters of its token:
\* a whitespace run, an identifier's or a constant's text.
C11_SomeStaysInsideInput ==
    (lastCall.res = "Some" /\ lastCall.before < Len(items))
        => /\ lastCall.after <= Len(items)
           /\ lastCall.matcher.kind \in {"Constant", "Identifier"}
                 => /\ lastCall.after = lastCall.before + Len(lastCall.token.lexeme)
                    /\ IsPrefixAt(lastCall.token.lexeme, items, lastCall.before)
           /\ lastCall.matcher.kind = "Whitespace"
                 => \A k \in (lastCall.before + 1)..lastCall.after :
                       is_whitespace(items[k])

\* C12: a pass over a non-empty input of whitespace only, with the
\* whitespace matcher registered, ends normally with exactly one Whitespace
\* token of empty lexeme; and in any pass a Whitespace token is followed
\* neither by a whitespace character nor by another Whitespace token.
C12_OneWhitespaceToken ==
    /\ (/\ items # <<>>
        /\ \A k \in 1..Len(items) : is_whitespace(items[k])
        /\ \E i \in 1..Len(matchers) : matchers[i].kind = "Whitespace"
        /\ state # "Running")
          => /\ state = "Done"
             /\ Lexemes(tokens) = << <<"Whitespace", <<>> >> >>
    /\ \A i \in 1..Len(tokens) :
          tokens[i].token_type = "Whitespace"
             => /\ tokens[i].position < Len(items)
                   => ~is_whitespace(items[tokens[i].position + 1])
                /\ i < Len(tokens) => tokens[i + 1].token_type # "Whitespace"

\* The value of the digit string s read in the base, with no width
RECURSIVE PlaceValue(_, _)
PlaceValue(s, base) ==
    IF s = <<>> THEN 0
    ELSE PlaceValue(SubSeq(s, 1, Len(s) - 1), base) * base + to_digit(s[Len(s)])

\* The digit string s without its leading zeros, one digit at least kept
RECURSIVE StripZeros(_)
StripZeros(s) == IF Len(s) > 1 /\ Head(s) = "0" THEN StripZeros(Tail(s)) ELSE s

\* Is s the canonical base-10 text of the value v
CanonicalDecimal(s, v) ==
    /\ s # <<>>
    /\ \A k \in 1..Len(s) : is_digit(s[k], 10)
    /\ Len(s) > 1 => s[1] # "0"
    /\ PlaceValue(s, 10) = v

\* The offset at which the maximal run of digits of the base from offset
\* `from` ends
RunEnd(its, from, base) ==
    CHOOSE j \in from..Len(its) :
        /\ \A k \in (from + 1)..j : is_digit(its[k], base)
        /\ j < Len(its) => ~is_digit(its[j + 1], base)

\* The base and the first digit's offset of the integer literal at offset
\* idx: 0x and 0b introduce base 16 and 2
LiteralBase(its, idx) ==
    IF idx + 2 <= Len(its) /\ its[idx + 1] = "0" /\ its[idx + 2] \in {"x", "b"}
    THEN IF its[idx + 2] = "x" THEN 16 ELSE 2
    ELSE 10

LiteralStart(its, idx) == IF LiteralBase(its, idx) = 10 THEN idx ELSE idx + 2

\* The digits of the integer literal at offset idx, <<>> if there is none
LiteralDigits(its, idx) ==
    IF LiteralStart(its, idx) > Len(its) THEN <<>>
    ELSE SubSeq(its, LiteralStart(its, idx) + 1,
                RunEnd(its, LiteralStart(its, idx), LiteralBase(its, idx)))

\* The integer matcher was called at an integer literal and returned one
\* token for the prefix and the maximal digit run, its lexeme the canonical
\* base-10 text of the value (the digits without leading zeros in base 10)
IntTokenIsCanonical ==
    LET base == LiteralBase(items, lastCall.before)
        digits == LiteralDigits(items, lastCall.before)
    IN  /\ lastCall.res = "Some"
        /\ lastCall.token.token_type = "IntLiteral"
        /\ lastCall.after = LiteralStart(items, lastCall.before) + Len(digits)
        /\ CanonicalDecimal(lastCall.token.lexeme, PlaceValue(digits, base))
        /\ base = 10 => lastCall.token.lexeme = StripZeros(digits)

\* The latest call was of the integer matcher, at an integer literal
IntCalledAtLiteral ==
    /\ lastCall.matcher.kind = "IntLiteral"
    /\ lastCall.before < Len(items)
    /\ LiteralDigits(items, lastCall.before) # <<>>

C14_KindByContentLength ==
    (lastCall.matcher.kind = "StringLiteral" /\ lastCall.res = "Some")
        => lastCall.token.token_type =
              IF Len(lastCall.token.lexeme) = 1 THEN "CharLiteral"
              ELSE "StringLiteral"

\* The latest call was of the string matcher and returned a token
StringToken == lastCall.matcher.kind = "StringLiteral" /\ lastCall.res = "Some"

\* For a token of the string matcher: the positions in `items` of the
\* opening delimiter and of the last character scanned as content
OpenAt == lastCall.before + 1

CloseAt == lastCall.after - 1

\* Is position k a backslash that escapes the character after it: a
\* backslash preceded by an even number of backslashes of the content
Escaper(k) ==
    /\ items[k] = "\\"
    /\ LET j == CHOOSE j \in OpenAt..(k - 1) :
                   /\ items[j] # "\\" \/ j = OpenAt
                   /\ \A m \in (j + 1)..(k - 1) : items[m] = "\\"
       IN  (k - 1 - j) % 2 = 0

Escaped(k) == k - 1 > OpenAt /\ Escaper(k - 1)

\* What an escaped character stands for
EscapeMeaning(c) ==
    IF c = "n" THEN "\n" ELSE IF c = "r" THEN "\r" ELSE IF c = "t" THEN "\t"
    ELSE c

\* The content positions of a double-quoted literal that give a character
\* of the lexeme, in order, and that character
UnescapedTo(close) ==
    LET positions == [i \in 1..(close - OpenAt) |-> OpenAt + i]
        Gives(k) == ~Escaper(k)
        kept == SelectSeq(positions, Gives)
    IN  [i \in 1..Len(kept) |->
            IF Escaped(kept[i]) THEN EscapeMeaning(items[kept[i]])
            ELSE items[kept[i]]]

Unescaped == UnescapedTo(CloseAt)

\* C15: in a double-quoted literal a backslash is not copied and makes the
\* next character an escape (backslash, double quote, newline, carriage
\* return, tab); an escaped double quote does not end the literal and the
\* scan stops only at a double quote that is not escaped, or where the
\* input ends.  In a single-quoted literal every character up to the next
\* single quote, backslashes included, is copied unchanged.
C15_EscapesAndVerbatim ==
    /\ (StringToken /\ items[OpenAt] = "\"")
          => /\ CloseAt <= Len(items)
             /\ lastCall.token.lexeme = Unescaped
             /\ \A k \in (OpenAt + 1)..CloseAt : items[k] = "\"" => Escaped(k)
             /\ CloseAt < Len(items)
                   => items[CloseAt + 1] = "\"" /\ ~Escaped(CloseAt + 1)
    /\ (StringToken /\ items[OpenAt] = "'")
          => /\ CloseAt <= Len(items)
             /\ lastCall.token.lexeme = SubSeq(items, OpenAt + 1, CloseAt)
             /\ \A k \in (OpenAt + 1)..CloseAt : items[k] # "'"
             /\ CloseAt < Len(items) => items[CloseAt + 1] = "'"
    /\ \A ex \in { << <<"\"", "a", "\\", "n", "b", "\"">>, <<"a", "\n", "b">> >>,
                   << <<"'", "a", "\\", "n", "b", "'">>, <<"a", "\\", "n", "b">> >>,
                   << <<"\"", "\\", "\"", "\"">>, <<"\"">> >>,
                   << <<"\"", "\\", "\\", "\"">>, <<"\\">> >> } :
          (/\ items = ex[1]
           /\ matchers = Registered(<<"StringLiteral">>, Parens)
           /\ state # "Running")
             => /\ state = "Done"
                /\ Len(tokens) = 1
                /\ tokens[1].lexeme = ex[2]

\* C15 witness: the pass over the double-quoted a, backslash, n, b has ended
\* with one token.
C15_Witness ==
    /\ items = <<"\"", "a", "\\", "n", "b", "\"">>
    /\ matchers = Registered(<<"StringLiteral">>, Parens)
    /\ state = "Done"
    /\ StringToken
    /\ Len(lastCall.token.lexeme) = 3

\* The latest call was of the string matcher, at a quote delimiter with no
\* matching closing delimiter after it: no single quote in a single-quoted
\* literal, no double quote that is not escaped in a double-quoted one
StringCalledUnterminated ==
    /\ lastCall.matcher.kind = "StringLiteral"
    /\ lastCall.before < Len(items)
    /\ \/ /\ items[OpenAt] = "'"
          /\ \A k \in (OpenAt + 1)..Len(items) : items[k] # "'"
       \/ /\ items[OpenAt] = "\""
          /\ \A k \in (OpenAt + 1)..Len(items) : items[k] = "\"" => Escaped(k)

\* Does the double-quoted literal of the latest call hold an escape other
\* than backslash, double quote, n, r, t
HoldsUnsupportedEscape ==
    /\ items[OpenAt] = "\""
    /\ \E k \in (OpenAt + 1)..Len(items) :
          Escaped(k) /\ items[k] \notin {"\\", "\"", "n", "r", "t"}

\* The call returned a token holding everything scanned up to the end of the
\* input, a backslash left pending there being dropped
TokenToEndOfInput ==
    /\ lastCall.res = "Some"
    /\ lastCall.token.token_type \in {"StringLiteral", "CharLiteral"}
    /\ lastCall.token.lexeme =
          IF items[OpenAt] = "'" THEN SubSeq(items, OpenAt + 1, Len(items))
          ELSE UnescapedTo(Len(items))

C17_IdentifierShape ==
    (lastCall.matcher.kind = "Identifier" /\ lastCall.res = "Some")
        => LET lexeme == lastCall.token.lexeme
               Continues(c) == is_alphanumeric(c) \/ c \in {"_", "?", "!"}
           IN  /\ lastCall.token.token_type = "Identifier"
               /\ lexeme # <<>>
               /\ lexeme = SubSeq(items, lastCall.before + 1, lastCall.after)
               /\ is_alphabetic(lexeme[1]) \/ lexeme[1] = "_"
               /\ ~is_numeric(lexeme[1]) /\ lexeme[1] \notin {"?", "!"}
               /\ \A k \in 2..Len(lexeme) : Continues(lexeme[k])
               /\ lastCall.after < Len(items)
                     => ~Continues(items[lastCall.after + 1])
               /\ index = lastCall.after

\* C17 witness: the identifier matcher has returned an identifier that holds
\* a mark and ends before the end of the input.
C17_Witness ==
    /\ lastCall.matcher.kind = "Identifier"
    /\ lastCall.res = "Some"
    /\ lastCall.after < Len(items)
    /\ \E k \in 2..Len(lastCall.token.lexeme) :
          lastCall.token.lexeme[k] \in {"_", "?", "!"}

\* Every token's position is the offset at which its matcher returned, and
\* the positions do not decrease in emission order
TokenPositions ==
    /\ Len(spans) = Len(tokens)
    /\ \A i \in 1..Len(tokens) :
          /\ tokens[i].position = spans[i][2]
          /\ tokens[i].position >= spans[i][1]
          /\ i > 1 => tokens[i - 1].position <= tokens[i].position

\* C18: no step of a pass decreases the tokenizer's offset, whether the
\* matcher tried returned Some or None; every token's position is the offset
\* at the moment its matcher returned, so positions are non-decreasing in
\* emission order.
C18_OffsetNeverDecreases ==
    [][index' >= index /\ TokenPositions']_vars

\* C18 witness: two tokens have been yielded, the second further on than the
\* first, and a matcher has since declined.
C18_Witness ==
    /\ Len(tokens) >= 2
    /\ tokens[1].position < tokens[2].position
    /\ tokens[1].position > 0
    /\ lastCall.res = "None"

\* The quote character other than c
OtherQuote(c) == IF c = "'" THEN "\"" ELSE "'"

\* C19: when the string matcher's scan stopped before the end of the input,
\* the character consumed as the closing delimiter is the opening delimiter;
\* every occurrence of the other quote character before it is content and
\* is in the lexeme.
C19_ClosingIsOpening ==
    (StringToken /\ CloseAt < Len(items))
        => /\ items[CloseAt + 1] = items[OpenAt]
           /\ lastCall.after = CloseAt + 1
           /\ Cardinality({k \in (OpenAt + 1)..CloseAt :
                              items[k] = OtherQuote(items[OpenAt])})
                 = Cardinality({i \in 1..Len(lastCall.token.lexeme) :
                                   lastCall.token.lexeme[i] = OtherQuote(items[OpenAt])})

\* C19 witness: the string matcher has returned the single-quoted literal
\* whose content is a double quote.
C19_Witness ==
    /\ items = <<"'", "\"", "'">>
    /\ StringToken
    /\ lastCall.before = 0
    /\ lastCall.token.lexeme = <<"\"">>

====
